---- MODULE Spec2Model ----
(***************************************************************************)
(* A model of xio's filtered concurrent directory walk (src/src/lib.rs)    *)
(* and of its directory splitter (src/src/split.rs).                       *)
(*                                                                         *)
(* File names are sequences of one-character strings, so that the name     *)
(* predicates (is_hidden, is_git_dir, is_target_dir) and Path::extension   *)
(* are computed on the characters as the code computes them.               *)
(***************************************************************************)
EXTENDS Integers, Sequences, FiniteSets, TLC

VARIABLES
    rootName,     \* final segment of the directory handed to WalkDir::new
    present,      \* the catalogue entries that exist on disk
    isSplit,      \* TRUE: walk_directory is called by DirectorySplitter::find_files
    extension,    \* walk_directory's `extension` argument
    walkPc,       \* walk_directory: "idle", "walking", "joining", "done"
    stack,        \* WalkDir's stack of directories being listed
    visited,      \* entries the WalkDir iterator has already produced or filtered
    handles,      \* Vec<JoinHandle>: the entries a task was spawned for, in order
    task,         \* per entry: the position / outcome of its spawned task
    joinIdx,      \* number of handles the join loop has awaited successfully
    walkResult,   \* walk_directory's return value: "none", "Ok", "Err"
    num_dirs,     \* SplitConfig.num_dirs
    patterns,     \* RegexFileMatcher.regex_patterns (Option<Vec<Regex>>)
    splitPc,      \* split: "idle", "discover", "prepare", "distribute", "done"
    splitResult,  \* split's outcome: "none", "Ok", "Err", "Panic"
    groups,       \* file_groups: HashMap<PathBuf, Vec<PathBuf>>
    lockHolder,   \* owner of the tokio Mutex around file_groups
    matched,      \* entries for which is_match returned Ok(true)
    accompanying, \* per handler: the Vec returned by find_accompanying_files
    created_dirs, \* split's created_dirs (the indices i of the created targets)
    current_dir,  \* split's round-robin cursor
    remaining,    \* groups that groups.values() has not yielded yet
    order,        \* the groups in the order groups.values() yielded them
    assigned,     \* per distributed group: the index of its target directory
    curGroup,     \* key of the group the copy loop is in, NoGroup between groups
    filePos,      \* members of the current group already copied
    copied,       \* the copies made: records [src, dir]
    faulty,       \* entries the traversal cannot read (permission denied, broken link)
    prefix_format, \* SplitConfig.prefix_format
    suffix_format, \* SplitConfig.suffix_format
    output_dir,   \* SplitConfig.output_dir (Option<PathBuf>)
    dir_paths,    \* the paths split pushed to created_dirs, in order
    onDisk,       \* the target directories that exist on disk, by path
    cleanupPc,    \* cleanup: "idle", "running", "done"
    cleanupRun,   \* number of cleanup calls made
    removal,      \* per directory handed to cleanup: state of its remove_dir_all
    cleanupResult, \* cleanup's return value: "none", "Ok", "NotFound", "IoError"
    argPath,      \* has_extension's `path` argument of a direct call
    hasExtension, \* has_extension's return value: "none", "true", "false"
    callee        \* the walker a caller with a choice invokes, "none" without one

walkVars == <<extension, walkPc, stack, visited, handles, task, joinIdx, walkResult>>
splitVars == <<num_dirs, patterns, splitPc, splitResult, groups, lockHolder, matched,
               accompanying, created_dirs, current_dir, remaining, order, assigned,
               curGroup, filePos, copied>>
\* The configuration and environment a run does not change.
envVars == <<faulty, prefix_format, suffix_format, output_dir>>
cleanupVars == <<cleanupPc, cleanupRun, removal, cleanupResult>>
fsVars == <<argPath, hasExtension, callee>>
vars == <<rootName, present, isSplit, walkVars, splitVars, envVars, dir_paths, onDisk,
          cleanupVars, fsVars>>

(***************************************************************************)
(* Bounds of the model.                                                    *)
(***************************************************************************)
\* Largest number of entries below the root of a tree walked directly.
MaxWalkEntries == 4
\* Largest number of entries below the root of a tree handed to the splitter.
MaxSplitEntries == 3
\* Largest num_dirs a checked SplitConfig holds.
MaxNumDirs == 2
\* Largest number of entries below the root when the configuration varies.
MaxConfigEntries == 3
\* Largest number of cleanup calls a caller makes.
MaxCleanupCalls == 2
\* Entries besides the root in a tree walked with traversal errors.
MaxFaultEntries == 3
\* Entries besides the root in a tree handed to walk_rust_files.
MaxRustEntries == 3
\* Entries besides the root in a tree handed to delete_files_with_extension.
MaxDeleteEntries == 3
\* Entries besides the root in a tree handed to get_files_with_extension.
MaxFsEntries == 3
\* Entries besides the root in a tree walked from roots of various names.
MaxRootEntries == 3
\* Files of a source directory at the time of its first split.
MaxRerunFiles == 1
\* Entries besides the root in a tree split under fair scheduling.
MaxFairEntries == 2

(***************************************************************************)
(* The file system: a catalogue of entries, of which a run holds a subset. *)
(***************************************************************************)
Root == 1

Catalog == <<
    [name |-> <<>>, kind |-> "dir", parent |-> 0],
    [name |-> <<"a", ".", "t", "x", "t">>, kind |-> "file", parent |-> 1],
    [name |-> <<"b", ".", "*">>, kind |-> "file", parent |-> 1],
    [name |-> <<"c", ".", "*">>, kind |-> "file", parent |-> 1],
    [name |-> <<"m", ".", "m", "e", "t", "a">>, kind |-> "file", parent |-> 1],
    [name |-> <<"t", "a", "r", "g", "e", "t">>, kind |-> "dir", parent |-> 1],
    [name |-> <<"t", ".", "t", "x", "t">>, kind |-> "file", parent |-> 6],
    [name |-> <<".", "g", "i", "t">>, kind |-> "dir", parent |-> 1],
    [name |-> <<"g", ".", "t", "x", "t">>, kind |-> "file", parent |-> 8],
    [name |-> <<".", "t", "m", "p", "x">>, kind |-> "dir", parent |-> 1],
    [name |-> <<"x", ".", "t", "x", "t">>, kind |-> "file", parent |-> 10],
    [name |-> <<"s", "u", "b">>, kind |-> "dir", parent |-> 1],
    [name |-> <<"s", ".", "t", "x", "t">>, kind |-> "file", parent |-> 12],
    [name |-> <<"d", ".", "*">>, kind |-> "file", parent |-> 12],
    [name |-> <<"e", ".", "*">>, kind |-> "file", parent |-> 1],
    [name |-> <<"d", "e", "e", "p">>, kind |-> "dir", parent |-> 6],
    [name |-> <<"z", ".", "t", "x", "t">>, kind |-> "file", parent |-> 16],
    [name |-> <<"k", ".", "t", "x", "t">>, kind |-> "file", parent |-> 1],
    [name |-> <<"n", ".", "t", "x", "t">>, kind |-> "file", parent |-> 1],
    [name |-> <<"d", "a", "t", "a", ".", "t", "x", "t">>, kind |-> "dir", parent |-> 1],
    [name |-> <<"n", ".", "m", "e", "t", "a">>, kind |-> "file", parent |-> 1],
    [name |-> <<".", "h", ".", "t", "x", "t">>, kind |-> "file", parent |-> 1],
    [name |-> <<"t", ".">>, kind |-> "file", parent |-> 1],
    [name |-> <<"U", ".", "T", "X", "T">>, kind |-> "file", parent |-> 1],
    [name |-> <<"m", ".", "r", "s">>, kind |-> "file", parent |-> 1],
    [name |-> <<"d", ".", "r", "s">>, kind |-> "dir", parent |-> 1],
    [name |-> <<"i", ".", "r", "s">>, kind |-> "file", parent |-> 26],
    [name |-> <<"x", ".", "r", "s">>, kind |-> "file", parent |-> 6],
    [name |-> <<"r", ".", "r", "s">>, kind |-> "file", parent |-> 12],
    [name |-> <<"R", "E", "A", "D", "M", "E">>, kind |-> "file", parent |-> 1],
    [name |-> <<"p", "a", "r", "t", "_", "0">>, kind |-> "dir", parent |-> 1],
    [name |-> <<"p", "a", "r", "t", "_", "1">>, kind |-> "dir", parent |-> 1],
    [name |-> <<"p", "a", "r", "t", "_", "2">>, kind |-> "dir", parent |-> 1],
    [name |-> <<"b", ".", "*">>, kind |-> "file", parent |-> 31],
    [name |-> <<"c", ".", "*">>, kind |-> "file", parent |-> 31],
    [name |-> <<"b", ".", "*">>, kind |-> "file", parent |-> 32],
    [name |-> <<"c", ".", "*">>, kind |-> "file", parent |-> 32]
>>

Entries == 1..Len(Catalog)

\* The entries a tree walked by a bare walk_directory call is drawn from.
WalkPool == {2, 3, 6, 7, 8, 9, 10, 11, 12, 13, 16, 17, 18, 19}
\* The entries a tree handed to the splitter is drawn from.
SplitPool == {2, 3, 4, 5, 12, 14, 15}
\* The entries of the trees split under varied configurations.
ConfigPool == {3, 5, 12, 21}
\* The entries of the trees walked with traversal errors.
FaultPool == {2, 6, 7, 12, 13, 18, 20}

\* The entries of the trees handed to walk_rust_files.
RustPool == {2, 6, 12, 25, 26, 27, 28, 29, 30}

\* The entries of the trees handed to delete_files_with_extension.
DeletePool == {2, 8, 9, 12, 13, 20, 24, 25}

\* The entries of the trees handed to get_files_with_extension.
FsPool == {2, 8, 9, 12, 13, 20, 22, 23, 24}

\* The entries of the trees walked from roots of various names.
RootPool == {2, 12, 13, 25, 29}

\* The files of a source directory that is split a second time.
RerunPool == {3, 4}

\* Names a root directory may carry.
WalkRootNames == {<<"p", "r", "o", "j">>, <<".">>, <<".", "t", "m", "p", "A">>}
SplitRootNames == {<<"p", "r", "o", "j">>, <<".", "t", "m", "p", "A">>}
\* Root names the pruning predicates are tried on.
PrunedRootNames == {<<"p", "r", "o", "j">>, <<"t", "a", "r", "g", "e", "t">>,
                    <<".", "g", "i", "t">>, <<".", "c", "o", "n", "f", "i", "g">>,
                    <<".">>, <<".", ".">>}

\* Lists of accompanying-file patterns a RegexFileMatcher may hold. A
\* pattern is the regex `.*SUFFIX$`, kept as the characters of SUFFIX.
MetaSuffix == <<".", "m", "e", "t", "a">>
PatternChoices == {[some |-> FALSE, val |-> <<>>], [some |-> TRUE, val |-> <<MetaSuffix>>]}
\* `.*a$` matches what `.*\.meta$` matches, and more.
ASuffix == <<"a">>
\* `.*b$` matches the path of the directory `sub` and of no file.
BSuffix == <<"b">>
\* `.*\*$` matches the paths that end in `*`.
StarSuffix == <<"*">>
RerunPatternChoices == {[some |-> FALSE, val |-> <<>>], [some |-> TRUE, val |-> <<StarSuffix>>]}
ConfigPatternChoices ==
    PatternChoices \cup {[some |-> TRUE, val |-> <<>>],
                         [some |-> TRUE, val |-> <<MetaSuffix, ASuffix>>],
                         [some |-> TRUE, val |-> <<BSuffix>>]}

\* Directory naming templates: `{` `}` is the placeholder of the index.
DefaultPrefix == <<"p", "a", "r", "t", "_", "{", "}">>
PrefixChoices == {DefaultPrefix, <<"{", "}", "_", "o", "f">>}
SuffixChoices == {<<>>, <<"_", "b">>}
OutputDirChoices == {[some |-> FALSE, val |-> <<>>], [some |-> TRUE, val |-> <<"o", "u", "t">>]}

TxtExt == <<"t", "x", "t">>
StarExt == <<"*">>

Parent(e) == Catalog[e].parent
IsDir(e) == Catalog[e].kind = "dir"
IsFile(e) == Catalog[e].kind = "file"
\* DirEntry::file_name: the final segment of the entry's path.
FileName(e) == IF e = Root THEN rootName ELSE Catalog[e].name

RECURSIVE Ancestors(_)
\* The entry and every directory above it, up to the root of the walk.
Ancestors(e) == IF e = Root THEN {Root} ELSE {e} \cup Ancestors(Parent(e))

Children(d) == {e \in present : Parent(e) = d}

\* The trees of at most k entries below the root, drawn from a pool.
Trees(pool, k) ==
    {{Root} \cup s : s \in {t \in SUBSET pool :
        /\ Cardinality(t) <= k
        /\ \A e \in t : Parent(e) = Root \/ Parent(e) \in t}}

(***************************************************************************)
(* String helpers (str::starts_with, Path::extension).                     *)
(***************************************************************************)
StartsWith(s, p) == Len(s) >= Len(p) /\ SubSeq(s, 1, Len(p)) = p
EndsWith(s, p) == Len(s) >= Len(p) /\ SubSeq(s, Len(s) - Len(p) + 1, Len(s)) = p
\* Path::starts_with: the path is the directory or lies below it.
Under(p, dir) == p = dir \/ StartsWith(p, dir \o <<"/">>)

\* Index of the last "." of a name, 0 when it has none.
LastDot(s) ==
    LET dots == {i \in 1..Len(s) : s[i] = "."}
    IN IF dots = {} THEN 0 ELSE CHOOSE i \in dots : \A j \in dots : j <= i

NoExt == [some |-> FALSE, val |-> <<>>]

UpperCase == <<"A", "B", "C", "D", "E", "F", "G", "H", "I", "J", "K", "L", "M",
               "N", "O", "P", "Q", "R", "S", "T", "U", "V", "W", "X", "Y", "Z">>
LowerCase == <<"a", "b", "c", "d", "e", "f", "g", "h", "i", "j", "k", "l", "m",
               "n", "o", "p", "q", "r", "s", "t", "u", "v", "w", "x", "y", "z">>

\* u8::to_ascii_lowercase of a character.
ToAsciiLowercase(c) ==
    IF \E i \in DOMAIN UpperCase : UpperCase[i] = c
    THEN LowerCase[CHOOSE i \in DOMAIN UpperCase : UpperCase[i] = c]
    ELSE c

\* OsStr::eq_ignore_ascii_case
eq_ignore_ascii_case(a, b) ==
    /\ Len(a) = Len(b)
    /\ \A i \in DOMAIN a : ToAsciiLowercase(a[i]) = ToAsciiLowercase(b[i])

\* Path::extension of a final segment: the part after the last ".", and
\* None for "..", for a name without "." and for a name whose only "." is
\* its first character.
PathExtension(s) ==
    IF s = <<".", ".">> \/ LastDot(s) <= 1
    THEN NoExt
    ELSE [some |-> TRUE, val |-> SubSeq(s, LastDot(s) + 1, Len(s))]

(***************************************************************************)
(* The entry predicates.                                                   *)
(***************************************************************************)
is_hidden(e) ==
    LET s == FileName(e)
    IN StartsWith(s, <<".">>) /\ s # <<".">> /\ s # <<".", ".">>

is_target_dir(e) == FileName(e) = <<"t", "a", "r", "g", "e", "t">>

is_git_dir(e) == FileName(e) = <<".", "g", "i", "t">>

\* A walker that forgets the build-output predicate.
KeepWithoutTarget(e) == ~is_hidden(e) /\ ~is_git_dir(e)

\* A walker that starts to filter below the root, as min_depth(1) would.
KeepBelowRoot(e) == e = Root \/ (~is_hidden(e) /\ ~is_git_dir(e) /\ ~is_target_dir(e))

\* The closure handed to filter_entry.
Keep(e) == ~is_hidden(e) /\ ~is_git_dir(e) /\ ~is_target_dir(e)

\* A comparison that takes `*` for a wildcard: every path matches it,
\* with or without an extension.
ExtensionMatchesWildcard(e, ext) ==
    LET x == PathExtension(FileName(e))
    IN ext = <<"*">> \/ (x.some /\ x.val = ext)

\* `if let Some(ext) = path.extension() { if ext.to_string_lossy() == extension`
ExtensionMatches(e, ext) ==
    LET x == PathExtension(FileName(e))
    IN x.some /\ x.val = ext

(***************************************************************************)
(* Task states.                                                            *)
(***************************************************************************)
Finished == {"ok", "err", "panic"}
Failed == {"err", "panic"}
Active == {"running", "matched", "locked", "pushed", "found"}
\* Owners of the mutex that are no handler: nobody, and split itself.
NoHolder == 0
SplitHolder == -1
NoGroup == 0

\* A join loop that does not wait for the task behind the handle.
HandleReadyNoWait(u) == TRUE

\* `handle.await` completes once the task behind the handle has finished.
HandleReady(u) == task[u] \in Finished

\* A join loop that drops the handler's own result (`handle.await?`).
JoinOutcomeJoinErrorOnly(u) == IF task[u] = "panic" THEN "Err" ELSE "Ok"

\* `handle.await??`: a JoinError or the handler's Err ends the loop.
JoinOutcome(u) == IF task[u] \in Failed THEN "Err" ELSE "Ok"

\* A walker that starts to await the handles while entries are left.
IteratorExhaustedEarly == Root \in visited

\* The WalkDir iterator has no entry left to produce.
IteratorExhausted == Root \in visited /\ stack = <<>>

(***************************************************************************)
(* Initial states.                                                         *)
(***************************************************************************)
InitRun ==
    /\ walkPc = "idle"
    /\ stack = <<>>
    /\ visited = {}
    /\ handles = <<>>
    /\ task = [e \in Entries |-> "none"]
    /\ joinIdx = 0
    /\ walkResult = "none"
    /\ splitPc = "idle"
    /\ splitResult = "none"
    /\ groups = [g \in {} |-> <<>>]
    /\ lockHolder = NoHolder
    /\ matched = {}
    /\ accompanying = [e \in Entries |-> <<>>]
    /\ created_dirs = <<>>
    /\ current_dir = 0
    /\ remaining = {}
    /\ order = <<>>
    /\ assigned = [g \in {} |-> 0]
    /\ curGroup = NoGroup
    /\ filePos = 0
    /\ copied = <<>>
    /\ dir_paths = <<>>
    /\ cleanupPc = "idle"
    /\ cleanupRun = 0
    /\ removal = <<>>
    /\ cleanupResult = "none"
    /\ hasExtension = "none"

\* A run of one entry point: the caller has no walker to choose.
InitState ==
    /\ InitRun
    /\ callee = "none"

\* No target directory exists yet and has_extension is not called directly.
InitCommon ==
    /\ InitState
    /\ onDisk = {}
    /\ argPath = <<>>

\* SplitConfig::new's naming: prefix "part_{}", empty suffix, no output_dir.
DefaultNaming ==
    /\ prefix_format = DefaultPrefix
    /\ suffix_format = <<>>
    /\ output_dir = [some |-> FALSE, val |-> <<>>]

InitWalk ==
    /\ InitCommon
    /\ isSplit = FALSE
    /\ rootName \in WalkRootNames
    /\ present \in Trees(WalkPool, MaxWalkEntries)
    /\ extension \in {TxtExt, StarExt}
    /\ num_dirs = 0
    /\ patterns = [some |-> FALSE, val |-> <<>>]
    /\ faulty = {}
    /\ DefaultNaming

InitSplit ==
    /\ InitCommon
    /\ isSplit = TRUE
    /\ rootName \in SplitRootNames
    /\ present \in Trees(SplitPool, MaxSplitEntries)
    /\ extension = <<>>
    /\ num_dirs \in 0..MaxNumDirs
    /\ patterns \in PatternChoices
    /\ faulty = {}
    /\ DefaultNaming

InitConfig ==
    /\ InitCommon
    /\ isSplit = TRUE
    /\ rootName = <<"p", "r", "o", "j">>
    /\ present \in Trees(ConfigPool, MaxConfigEntries)
    /\ extension = <<>>
    /\ num_dirs \in 0..MaxNumDirs
    /\ patterns \in ConfigPatternChoices
    /\ faulty = {}
    /\ prefix_format \in PrefixChoices
    /\ suffix_format \in SuffixChoices
    /\ output_dir \in OutputDirChoices

\* A bare walk over a tree some of whose entries give the iterator an
\* error: a faulty file is a broken symlink (with follow_links its
\* metadata cannot be read), a faulty directory cannot be opened.
InitWalkFaults ==
    /\ InitCommon
    /\ isSplit = FALSE
    /\ rootName = <<"p", "r", "o", "j">>
    /\ present \in Trees(FaultPool, MaxFaultEntries)
    /\ extension = TxtExt
    /\ num_dirs = 0
    /\ patterns = [some |-> FALSE, val |-> <<>>]
    /\ faulty \in SUBSET present
    /\ DefaultNaming

(***************************************************************************)
(* walk_directory.                                                         *)
(***************************************************************************)
\* A caller invokes walk_directory(dir, extension, callback).
WalkCall ==
    /\ ~isSplit
    /\ walkPc = "idle"
    /\ walkPc' = "walking"
    /\ UNCHANGED <<fsVars, envVars, cleanupVars, dir_paths, onDisk, rootName, present, isSplit, extension, stack, visited, handles,
                   task, joinIdx, walkResult, splitVars>>

\* The entries the iterator may produce next: the root first, then the
\* children of the directory on top of the stack, in read_dir's order.
NextEntries ==
    IF Root \notin visited THEN {Root}
    ELSE IF stack = <<>> THEN {}
    ELSE IF stack[Len(stack)] \in faulty THEN {}
    ELSE Children(stack[Len(stack)]) \ visited

\* The iterator's item for the entry is an Err: the entry's metadata
\* cannot be read.
ErrorItem(e) == e \in faulty /\ IsFile(e)

\* One round of the `for entry in walker...` loop: filter_entry decides
\* whether the entry is produced (and, for a directory, descended into);
\* a produced entry with the wanted extension gets a spawned task.
VisitEntry(e) ==
    /\ walkPc = "walking"
    /\ e \in NextEntries
    /\ ~ErrorItem(e)
    /\ visited' = visited \cup {e}
    /\ IF Keep(e)
       THEN /\ stack' = IF IsDir(e) THEN Append(stack, e) ELSE stack
            /\ IF ExtensionMatches(e, extension)
               THEN /\ handles' = Append(handles, e)
                    /\ task' = [task EXCEPT ![e] = "running"]
               ELSE UNCHANGED <<handles, task>>
       ELSE UNCHANGED <<stack, handles, task>>
    /\ UNCHANGED <<fsVars, envVars, cleanupVars, dir_paths, onDisk, rootName, present, isSplit, extension, walkPc, joinIdx, walkResult,
                   splitVars>>

\* The directory on top of the stack is used up: the iterator leaves it.
LeaveDir ==
    /\ walkPc = "walking"
    /\ Root \in visited
    /\ stack # <<>>
    /\ stack[Len(stack)] \notin faulty
    /\ NextEntries = {}
    /\ stack' = SubSeq(stack, 1, Len(stack) - 1)
    /\ UNCHANGED <<fsVars, envVars, cleanupVars, dir_paths, onDisk, rootName, present, isSplit, extension, walkPc, visited, handles,
                   task, joinIdx, walkResult, splitVars>>

\* A loop that propagates the iterator's error item as `entry?` would:
\* walk_directory returns the error.
FailOnErrorEntry(e) ==
    /\ walkPc = "walking"
    /\ e \in NextEntries
    /\ ErrorItem(e)
    /\ visited' = visited \cup {e}
    /\ walkPc' = "done"
    /\ walkResult' = "Err"
    /\ UNCHANGED <<fsVars, envVars, cleanupVars, dir_paths, onDisk, rootName, present, isSplit, extension, stack, handles, task,
                   joinIdx, splitVars>>

\* The iterator's item for the entry is an Err: filter_entry hands it on
\* and the filter_map closure turns it into None, so the loop body does
\* not run for it.
SkipErrorEntry(e) ==
    /\ walkPc = "walking"
    /\ e \in NextEntries
    /\ ErrorItem(e)
    /\ visited' = visited \cup {e}
    /\ UNCHANGED <<fsVars, envVars, cleanupVars, dir_paths, onDisk, rootName, present, isSplit, extension, walkPc, stack, handles,
                   task, joinIdx, walkResult, splitVars>>

\* The directory on top of the stack cannot be opened: its listing is one
\* Err item, which the filter_map closure drops; the iterator leaves the
\* directory without having produced any of its entries.
SkipUnreadableDir ==
    /\ walkPc = "walking"
    /\ stack # <<>>
    /\ stack[Len(stack)] \in faulty
    /\ stack' = SubSeq(stack, 1, Len(stack) - 1)
    /\ UNCHANGED <<fsVars, envVars, cleanupVars, dir_paths, onDisk, rootName, present, isSplit, extension, walkPc, visited, handles,
                   task, joinIdx, walkResult, splitVars>>

\* The for loop over the walker ends; the join loop begins.
BeginJoin ==
    /\ walkPc = "walking"
    /\ IteratorExhausted
    /\ walkPc' = "joining"
    /\ UNCHANGED <<fsVars, envVars, cleanupVars, dir_paths, onDisk, rootName, present, isSplit, extension, stack, visited, handles,
                   task, joinIdx, walkResult, splitVars>>

\* The callback of a bare walk_directory call runs to its end: it
\* returns Ok or Err, or its task panics or is aborted.
HandlerFinish(e, outcome) ==
    /\ ~isSplit
    /\ task[e] = "running"
    /\ task' = [task EXCEPT ![e] = outcome]
    /\ UNCHANGED <<fsVars, envVars, cleanupVars, dir_paths, onDisk, rootName, present, isSplit, extension, walkPc, stack, visited,
                   handles, joinIdx, walkResult, splitVars>>

\* A join that returns the error of whichever handle has failed, as a
\* select over the handles would.
JoinStepAnyFailed ==
    /\ walkPc = "joining"
    /\ joinIdx < Len(handles)
    /\ IF \E i \in (joinIdx + 1)..Len(handles) : JoinOutcome(handles[i]) = "Err"
       THEN /\ walkResult' = "Err"
            /\ walkPc' = "done"
            /\ UNCHANGED joinIdx
       ELSE /\ HandleReady(handles[joinIdx + 1])
            /\ joinIdx' = joinIdx + 1
            /\ UNCHANGED <<walkResult, walkPc>>
    /\ UNCHANGED <<fsVars, envVars, cleanupVars, dir_paths, onDisk, rootName, present, isSplit, extension, stack, visited, handles,
                   task, splitVars>>

\* `handle.await??` for the next handle: a failure returns at once and
\* drops the handles that are left, which detaches their tasks.
JoinStep ==
    /\ walkPc = "joining"
    /\ joinIdx < Len(handles)
    /\ HandleReady(handles[joinIdx + 1])
    /\ IF JoinOutcome(handles[joinIdx + 1]) = "Err"
       THEN /\ walkResult' = "Err"
            /\ walkPc' = "done"
            /\ UNCHANGED joinIdx
       ELSE /\ joinIdx' = joinIdx + 1
            /\ UNCHANGED <<walkResult, walkPc>>
    /\ UNCHANGED <<fsVars, envVars, cleanupVars, dir_paths, onDisk, rootName, present, isSplit, extension, stack, visited, handles,
                   task, splitVars>>

\* Every handle was awaited: Ok(()).
JoinDone ==
    /\ walkPc = "joining"
    /\ joinIdx = Len(handles)
    /\ walkResult' = "Ok"
    /\ walkPc' = "done"
    /\ UNCHANGED <<fsVars, envVars, cleanupVars, dir_paths, onDisk, rootName, present, isSplit, extension, stack, visited, handles,
                   task, joinIdx, splitVars>>

NextWalk ==
    \/ WalkCall
    \/ \E e \in Entries : VisitEntry(e)
    \/ LeaveDir
    \/ BeginJoin
    \/ \E e \in Entries, outcome \in Finished : HandlerFinish(e, outcome)
    \/ JoinStep
    \/ JoinDone

SpecWalk == InitWalk /\ [][NextWalk]_vars

\* walk_directory over a tree with traversal errors.
NextWalkFaults ==
    \/ NextWalk
    \/ \E e \in Entries : SkipErrorEntry(e)
    \/ SkipUnreadableDir

SpecWalkFaults == InitWalkFaults /\ [][NextWalkFaults]_vars

(***************************************************************************)
(* RegexFileMatcher.                                                       *)
(***************************************************************************)
RECURSIVE PathStr(_)
\* The path of an entry as a string: the walk's root joined with the names.
PathStr(e) ==
    IF e = Root THEN rootName ELSE PathStr(Parent(e)) \o <<"/">> \o Catalog[e].name

\* Regex::is_match of the pattern `.*SUFFIX$` on a string.
PatternIsMatch(suffix, str) == EndsWith(str, suffix)

\* The files find_accompanying_files collects for `path`: the regular
\* files of path's parent directory that some pattern matches.
AccompanyingSet(e) ==
    IF patterns.some
    THEN {f \in Children(Parent(e)) :
            /\ IsFile(f)
            /\ \E i \in 1..Len(patterns.val) : PatternIsMatch(patterns.val[i], PathStr(f))}
    ELSE {}

\* The orders read_dir may list a set of entries in.
Listings(S) ==
    {s \in [1..Cardinality(S) -> S] : \A i, j \in 1..Cardinality(S) : s[i] = s[j] => i = j}

RECURSIVE PatternPushesAll(_, _)
\* The pattern loop without its `break`: one push per matching pattern.
PatternPushesAll(pats, f) ==
    IF pats = <<>> THEN <<>>
    ELSE IF PatternIsMatch(Head(pats), PathStr(f))
         THEN <<f>> \o PatternPushesAll(Tail(pats), f)
         ELSE PatternPushesAll(Tail(pats), f)

RECURSIVE PatternPushes(_, _)
\* `for pattern in patterns { if pattern.is_match(file_name)? { push; break; } }`
PatternPushes(pats, f) ==
    IF pats = <<>> THEN <<>>
    ELSE IF PatternIsMatch(Head(pats), PathStr(f))
         THEN <<f>>
         ELSE PatternPushes(Tail(pats), f)

RECURSIVE CollectAccompanying(_)
\* The `while let Some(entry) = dir_entries.next_entry()` loop over a listing.
CollectAccompanying(listing) ==
    IF listing = <<>> THEN <<>>
    ELSE (IF IsFile(Head(listing)) THEN PatternPushes(patterns.val, Head(listing)) ELSE <<>>)
            \o CollectAccompanying(Tail(listing))

\* The lists find_accompanying_files may return for `path`: empty without
\* patterns, else what the loop collects from a listing of path's parent.
find_accompanying_files(e) ==
    IF patterns.some
    THEN {CollectAccompanying(l) : l \in Listings(Children(Parent(e)))}
    ELSE {<<>>}

(***************************************************************************)
(* walk_rust_files.                                                        *)
(***************************************************************************)
\* `path.extension().is_some_and(|ext| ext == "rs")`
RsExt == <<"r", "s">>

InitRust ==
    /\ InitCommon
    /\ isSplit = FALSE
    /\ rootName \in SplitRootNames
    /\ present \in Trees(RustPool, MaxRustEntries)
    /\ extension = RsExt
    /\ num_dirs = 0
    /\ patterns = [some |-> FALSE, val |-> <<>>]
    /\ faulty = {}
    /\ DefaultNaming

\* The loop of walk_rust_files is between two rounds: the callback it
\* awaits inline, if any, has returned.
CallbackReturned == \A u \in Entries : task[u] # "running"

\* A caller invokes walk_rust_files(dir, callback).
RustCall ==
    /\ walkPc = "idle"
    /\ walkPc' = "walking"
    /\ UNCHANGED <<fsVars, envVars, cleanupVars, dir_paths, onDisk, rootName, present, isSplit, extension, stack, visited, handles,
                   task, joinIdx, walkResult, splitVars>>

\* One round of the loop: filter_entry decides whether the entry is
\* produced; for a regular file with extension `rs` the callback is
\* called and awaited, `handles` recording the calls in order.
RustVisitEntry(e) ==
    /\ walkPc = "walking"
    /\ CallbackReturned
    /\ e \in NextEntries
    /\ ~ErrorItem(e)
    /\ visited' = visited \cup {e}
    /\ IF Keep(e)
       THEN /\ stack' = IF IsDir(e) THEN Append(stack, e) ELSE stack
            /\ IF IsFile(e) /\ ExtensionMatches(e, RsExt)
               THEN /\ handles' = Append(handles, e)
                    /\ task' = [task EXCEPT ![e] = "running"]
               ELSE UNCHANGED <<handles, task>>
       ELSE UNCHANGED <<stack, handles, task>>
    /\ UNCHANGED <<fsVars, envVars, cleanupVars, dir_paths, onDisk, rootName, present, isSplit, extension, walkPc, joinIdx, walkResult,
                   splitVars>>

\* `callback(&path).await?`: the callback returns; an Err ends the walk.
RustCallbackReturn(e, outcome) ==
    /\ walkPc = "walking"
    /\ task[e] = "running"
    /\ task' = [task EXCEPT ![e] = outcome]
    /\ IF outcome = "err"
       THEN walkPc' = "done" /\ walkResult' = "Err"
       ELSE UNCHANGED <<walkPc, walkResult>>
    /\ UNCHANGED <<fsVars, envVars, cleanupVars, dir_paths, onDisk, rootName, present, isSplit, extension, stack, visited, handles,
                   joinIdx, splitVars>>

\* The iterator leaves a directory it has used up.
RustLeaveDir == CallbackReturned /\ LeaveDir

\* The iterator is exhausted: `Ok(())`.
RustReturn ==
    /\ walkPc = "walking"
    /\ CallbackReturned
    /\ IteratorExhausted
    /\ walkPc' = "done"
    /\ walkResult' = "Ok"
    /\ UNCHANGED <<fsVars, envVars, cleanupVars, dir_paths, onDisk, rootName, present, isSplit, extension, stack, visited, handles,
                   task, joinIdx, splitVars>>

NextRust ==
    \/ RustCall
    \/ \E e \in Entries : RustVisitEntry(e)
    \/ \E e \in Entries, outcome \in {"ok", "err"} : RustCallbackReturn(e, outcome)
    \/ RustLeaveDir
    \/ RustReturn

SpecRust == InitRust /\ [][NextRust]_vars

(***************************************************************************)
(* Both filtered walkers, called on roots of various names.                *)
(***************************************************************************)
\* The caller picks walk_directory (with extension `txt`) or
\* walk_rust_files, and a root whose final segment may be a pruned name.
InitRoot ==
    /\ InitRun
    /\ onDisk = {}
    /\ argPath = <<>>
    /\ callee \in {"walk_directory", "walk_rust_files"}
    /\ isSplit = FALSE
    /\ rootName \in PrunedRootNames
    /\ present \in Trees(RootPool, MaxRootEntries)
    /\ extension = IF callee = "walk_rust_files" THEN RsExt ELSE TxtExt
    /\ num_dirs = 0
    /\ patterns = [some |-> FALSE, val |-> <<>>]
    /\ faulty = {}
    /\ DefaultNaming

\* A step of the walk_directory call.
RootWalkDirectory == callee = "walk_directory" /\ NextWalk

\* A step of the walk_rust_files call.
RootWalkRustFiles == callee = "walk_rust_files" /\ NextRust

NextRoot ==
    \/ RootWalkDirectory
    \/ RootWalkRustFiles

SpecRoot == InitRoot /\ [][NextRoot]_vars

(***************************************************************************)
(* fs::has_extension and fs::get_files_with_extension.                     *)
(***************************************************************************)
\* Index of the last "/" of a path, 0 when it has none.
LastSlash(p) ==
    LET at == {i \in 1..Len(p) : p[i] = "/"}
    IN IF at = {} THEN 0 ELSE CHOOSE i \in at : \A j \in at : j <= i

\* Path::file_name: the final component, None for the empty path and for
\* a path that ends in `.` or `..`.
file_name(p) ==
    LET seg == SubSeq(p, LastSlash(p) + 1, Len(p))
    IN IF seg \in {<<>>, <<".">>, <<".", ".">>}
       THEN NoExt
       ELSE [some |-> TRUE, val |-> seg]

\* Path::extension of a path.
path_extension(p) == IF file_name(p).some THEN PathExtension(file_name(p).val) ELSE NoExt

\* `path.extension().is_some_and(|ext| ext == extension)`
has_extension(p, ext) == path_extension(p).some /\ path_extension(p).val = ext

\* Paths and extensions handed to has_extension directly.
PathChoices == {
    <<"t", ".", "t", "x", "t">>,
    <<"t", ".", "d", "a", "t">>,
    <<"t">>,
    <<".", "t", "x", "t">>,
    <<"p", "/", "q", "/", "t", ".", "t", "x", "t">>,
    <<>>,
    <<"t", ".">>,
    <<".">>,
    <<"t", ".", "t", "x", "t", ".", "b", "a", "k">>,
    <<".", "h", ".", "t", "x", "t">>,
    <<"p", "/", ".", "h", ".", "d", "a", "t">>,
    <<"T", ".", "T", "X", "T">>,
    <<"p", ".", "d", "/", "t">>,
    <<".", ".">> }
ExtChoices == {TxtExt, <<"d", "a", "t">>, <<>>, <<"T", "X", "T">>}

InitHasExtension ==
    /\ InitState
    /\ onDisk = {}
    /\ isSplit = FALSE
    /\ rootName = <<"p", "r", "o", "j">>
    /\ present = {Root}
    /\ argPath \in PathChoices
    /\ extension \in ExtChoices
    /\ num_dirs = 0
    /\ patterns = [some |-> FALSE, val |-> <<>>]
    /\ faulty = {}
    /\ DefaultNaming

\* A caller invokes has_extension(path, extension).
HasExtensionCall ==
    /\ hasExtension = "none"
    /\ hasExtension' = IF has_extension(argPath, extension) THEN "true" ELSE "false"
    /\ UNCHANGED <<argPath, callee, envVars, cleanupVars, dir_paths, onDisk, rootName, present,
                   isSplit, walkVars, splitVars>>

NextHasExtension == HasExtensionCall

SpecHasExtension == InitHasExtension /\ [][NextHasExtension]_vars

FsExtChoices == {TxtExt, <<>>, <<"T", "X", "T">>}

InitFs ==
    /\ InitCommon
    /\ isSplit = FALSE
    /\ rootName \in WalkRootNames
    /\ present \in Trees(FsPool, MaxFsEntries)
    /\ extension \in FsExtChoices
    /\ num_dirs = 0
    /\ patterns = [some |-> FALSE, val |-> <<>>]
    /\ faulty = {}
    /\ DefaultNaming

\* The closure handed to `filter`.
FsFilter(e) ==
    /\ ~StartsWith(FileName(e), <<".">>)
    /\ has_extension(PathStr(e), extension)

\* A caller invokes get_files_with_extension(dir, extension) and starts
\* to draw from the iterator.
FsCall ==
    /\ walkPc = "idle"
    /\ walkPc' = "walking"
    /\ UNCHANGED <<fsVars, envVars, cleanupVars, dir_paths, onDisk, rootName, present, isSplit, extension, stack, visited, handles,
                   task, joinIdx, walkResult, splitVars>>

\* The unfiltered walker produces an entry; the iterator yields its path
\* when the filter closure accepts it (`handles` records the yields).
FsNext(e) ==
    /\ walkPc = "walking"
    /\ e \in NextEntries
    /\ visited' = visited \cup {e}
    /\ stack' = IF IsDir(e) THEN Append(stack, e) ELSE stack
    /\ handles' = IF FsFilter(e) THEN Append(handles, e) ELSE handles
    /\ UNCHANGED <<fsVars, envVars, cleanupVars, dir_paths, onDisk, rootName, present, isSplit, extension, walkPc, task, joinIdx,
                   walkResult, splitVars>>

\* The walker leaves a directory it has used up.
FsLeaveDir == walkPc = "walking" /\ LeaveDir

\* The walker is exhausted: the iterator returns None.
FsEnd ==
    /\ walkPc = "walking"
    /\ IteratorExhausted
    /\ walkPc' = "done"
    /\ UNCHANGED <<fsVars, envVars, cleanupVars, dir_paths, onDisk, rootName, present, isSplit, extension, stack, visited, handles,
                   task, joinIdx, walkResult, splitVars>>

NextFs ==
    \/ FsCall
    \/ \E e \in Entries : FsNext(e)
    \/ FsLeaveDir
    \/ FsEnd

SpecFs == InitFs /\ [][NextFs]_vars

(***************************************************************************)
(* delete_files_with_extension.                                            *)
(***************************************************************************)
InitDelete ==
    /\ InitCommon
    /\ isSplit = FALSE
    /\ rootName \in SplitRootNames
    /\ present \in Trees(DeletePool, MaxDeleteEntries)
    /\ extension = TxtExt
    /\ num_dirs = 0
    /\ patterns = [some |-> FALSE, val |-> <<>>]
    /\ faulty = {}
    /\ DefaultNaming

\* The states in which a removal task has run to its end: the file is
\* removed ("ok"), remove_file failed and the error was printed ("kept"),
\* or the task panicked.
Removed == {"ok", "kept", "panic"}

\* `if path.is_file()`, `if let Some(file_extension) = path.extension()`,
\* `if file_extension.eq_ignore_ascii_case(extension)`
DeleteMatches(e) ==
    /\ IsFile(e)
    /\ PathExtension(FileName(e)).some
    /\ eq_ignore_ascii_case(PathExtension(FileName(e)).val, extension)

\* A caller invokes delete_files_with_extension(target_dir, extension).
DeleteCall ==
    /\ walkPc = "idle"
    /\ walkPc' = "walking"
    /\ UNCHANGED <<fsVars, envVars, cleanupVars, dir_paths, onDisk, rootName, present, isSplit, extension, stack, visited, handles,
                   task, joinIdx, walkResult, splitVars>>

\* One round of the loop over the unfiltered walker: a matching file gets
\* a spawned removal task.
DeleteVisitEntry(e) ==
    /\ walkPc = "walking"
    /\ e \in NextEntries
    /\ visited' = visited \cup {e}
    /\ stack' = IF IsDir(e) THEN Append(stack, e) ELSE stack
    /\ IF DeleteMatches(e)
       THEN /\ handles' = Append(handles, e)
            /\ task' = [task EXCEPT ![e] = "running"]
       ELSE UNCHANGED <<handles, task>>
    /\ UNCHANGED <<fsVars, envVars, cleanupVars, dir_paths, onDisk, rootName, present, isSplit, extension, walkPc, joinIdx, walkResult,
                   splitVars>>

\* The iterator leaves a directory it has used up.
DeleteLeaveDir == walkPc = "walking" /\ LeaveDir

\* The loop over the walker ends; `for task in tasks` begins.
DeleteBeginJoin == walkPc = "walking" /\ BeginJoin

\* The spawned task runs: remove_file succeeds, or fails and the error
\* is printed and dropped, or the task panics.
RemoveFile(e, outcome) ==
    /\ task[e] = "running"
    /\ outcome \in Removed
    /\ task' = [task EXCEPT ![e] = outcome]
    /\ UNCHANGED <<fsVars, envVars, cleanupVars, dir_paths, onDisk, rootName, present, isSplit, extension, walkPc, stack, visited,
                   handles, joinIdx, walkResult, splitVars>>

\* `task.await?`: the task's value is (), only a JoinError ends the loop.
DeleteJoinStep ==
    /\ walkPc = "joining"
    /\ joinIdx < Len(handles)
    /\ task[handles[joinIdx + 1]] \in Removed
    /\ IF task[handles[joinIdx + 1]] = "panic"
       THEN /\ walkResult' = "Err"
            /\ walkPc' = "done"
            /\ UNCHANGED joinIdx
       ELSE /\ joinIdx' = joinIdx + 1
            /\ UNCHANGED <<walkResult, walkPc>>
    /\ UNCHANGED <<fsVars, envVars, cleanupVars, dir_paths, onDisk, rootName, present, isSplit, extension, stack, visited, handles,
                   task, splitVars>>

\* Every task was awaited: `Ok(())`.
DeleteReturn == walkPc = "joining" /\ JoinDone

NextDelete ==
    \/ DeleteCall
    \/ \E e \in Entries : DeleteVisitEntry(e)
    \/ DeleteLeaveDir
    \/ DeleteBeginJoin
    \/ \E e \in Entries, outcome \in Removed : RemoveFile(e, outcome)
    \/ DeleteJoinStep
    \/ DeleteReturn

SpecDelete == InitDelete /\ [][NextDelete]_vars

(***************************************************************************)
(* DirectorySplitter::split and find_files.                                *)
(***************************************************************************)
\* The extension find_files hands to walk_directory.
FindFilesExtension == StarExt

\* A table that hands out its lock whether or not it is held.
LockFreeUnguarded == TRUE

\* The mutex around file_groups is free.
LockFree == lockHolder = NoHolder

\* A cursor that never leaves the first target directory.
NextDirStuck(cur, n) == cur

\* `current_dir = (current_dir + 1) % self.config.num_dirs`
NextDir(cur, n) == (cur + 1) % n

RECURSIVE Digits(_)
\* `i.to_string()`: the decimal digits of a natural number.
Digits(i) ==
    LET d == <<"0", "1", "2", "3", "4", "5", "6", "7", "8", "9">>[(i % 10) + 1]
    IN IF i < 10 THEN <<d>> ELSE Append(Digits(i \div 10), d)

RECURSIVE ReplacePlaceholder(_, _)
\* `template.replace("{}", with)`: every occurrence is replaced.
ReplacePlaceholder(template, with) ==
    IF template = <<>> THEN <<>>
    ELSE IF StartsWith(template, <<"{", "}">>)
         THEN with \o ReplacePlaceholder(SubSeq(template, 3, Len(template)), with)
         ELSE <<Head(template)>> \o ReplacePlaceholder(Tail(template), with)

\* The loop index is left out of the name.
DirNameWithoutIndex(i) == ReplacePlaceholder(prefix_format, <<>>) \o suffix_format

\* `format!("{}{}", prefix_format.replace("{}", &i.to_string()), suffix_format)`
DirName(i) == ReplacePlaceholder(prefix_format, Digits(i)) \o suffix_format

\* `self.config.output_dir.as_ref().unwrap_or(&self.config.source_dir)`
OutputDir == IF output_dir.some THEN output_dir.val ELSE rootName

\* `output_dir.join(&dir_name)`
DirPath(i) == OutputDir \o <<"/">> \o DirName(i)

\* `target_dir.join(file_name)` for a member and the target of index i.
TargetPath(src, i) == DirPath(i) \o <<"/">> \o FileName(src)

\* What fs::copy can do to its destination: it gets the content of the
\* source; when source and destination are one file, the file is left as
\* it is or is truncated, depending on the platform.
CopyEffects(src, i) ==
    IF TargetPath(src, i) = PathStr(src) THEN {"kept", "truncated"} ELSE {"copied"}

\* split is called: it starts find_files, which calls walk_directory.
SplitCall ==
    /\ isSplit
    /\ splitPc = "idle"
    /\ splitPc' = "discover"
    /\ walkPc' = "walking"
    /\ extension' = FindFilesExtension
    /\ UNCHANGED <<fsVars, envVars, cleanupVars, dir_paths, onDisk, rootName, present, isSplit, stack, visited, handles, task, joinIdx,
                   walkResult, num_dirs, patterns, splitResult, groups, lockHolder,
                   matched, accompanying, created_dirs, current_dir, remaining, order,
                   assigned, curGroup, filePos, copied>>

\* The discovery handler asks the matcher: `matcher.is_match(&path).await?`.
IsMatch(e, answer) ==
    /\ isSplit
    /\ task[e] = "running"
    /\ task' = [task EXCEPT ![e] =
                    CASE answer = "true" -> "matched"
                      [] answer = "false" -> "ok"
                      [] OTHER -> "err"]
    /\ matched' = IF answer = "true" THEN matched \cup {e} ELSE matched
    /\ UNCHANGED <<fsVars, envVars, cleanupVars, dir_paths, onDisk, rootName, present, isSplit, extension, walkPc, stack, visited,
                   handles, joinIdx, walkResult, num_dirs, patterns, splitPc,
                   splitResult, groups, lockHolder, accompanying, created_dirs,
                   current_dir, remaining, order, assigned, curGroup, filePos, copied>>

\* `file_groups.lock().await`
LockGroups(e) ==
    /\ task[e] = "matched"
    /\ LockFree
    /\ lockHolder' = e
    /\ task' = [task EXCEPT ![e] = "locked"]
    /\ UNCHANGED <<fsVars, envVars, cleanupVars, dir_paths, onDisk, rootName, present, isSplit, extension, walkPc, stack, visited,
                   handles, joinIdx, walkResult, num_dirs, patterns, splitPc,
                   splitResult, groups, matched, accompanying, created_dirs,
                   current_dir, remaining, order, assigned, curGroup, filePos, copied>>

\* `groups.entry(path.clone()).or_default()` and `group.push(path.clone())`
PushRepresentative(e) ==
    /\ task[e] = "locked"
    /\ groups' = [g \in DOMAIN groups \cup {e} |->
                    IF g = e
                    THEN Append(IF e \in DOMAIN groups THEN groups[e] ELSE <<>>, e)
                    ELSE groups[g]]
    /\ task' = [task EXCEPT ![e] = "pushed"]
    /\ UNCHANGED <<fsVars, envVars, cleanupVars, dir_paths, onDisk, rootName, present, isSplit, extension, walkPc, stack, visited,
                   handles, joinIdx, walkResult, num_dirs, patterns, splitPc,
                   splitResult, lockHolder, matched, accompanying, created_dirs,
                   current_dir, remaining, order, assigned, curGroup, filePos, copied>>

\* `matcher.find_accompanying_files(&path).await` returns its list.
FindAccompanying(e) ==
    /\ task[e] = "pushed"
    /\ \E s \in find_accompanying_files(e) :
            accompanying' = [accompanying EXCEPT ![e] = s]
    /\ task' = [task EXCEPT ![e] = "found"]
    /\ UNCHANGED <<fsVars, envVars, cleanupVars, dir_paths, onDisk, rootName, present, isSplit, extension, walkPc, stack, visited,
                   handles, joinIdx, walkResult, num_dirs, patterns, splitPc,
                   splitResult, groups, lockHolder, matched, created_dirs,
                   current_dir, remaining, order, assigned, curGroup, filePos, copied>>

\* A handler that leaves on the error without giving up the lock, as one
\* that had leaked its guard would.
FindAccompanyingFailHoldingLock(e) ==
    /\ task[e] = "pushed"
    /\ patterns.some
    /\ task' = [task EXCEPT ![e] = "err"]
    /\ UNCHANGED <<fsVars, envVars, cleanupVars, dir_paths, onDisk, rootName, present, isSplit, extension, walkPc, stack, visited,
                   handles, joinIdx, walkResult, num_dirs, patterns, splitPc,
                   splitResult, groups, lockHolder, matched, accompanying, created_dirs,
                   current_dir, remaining, order, assigned, curGroup, filePos, copied>>

\* read_dir or a pattern fails: `?` leaves the handler, dropping the guard.
FindAccompanyingFail(e) ==
    /\ task[e] = "pushed"
    /\ patterns.some
    /\ task' = [task EXCEPT ![e] = "err"]
    /\ lockHolder' = IF lockHolder = e THEN NoHolder ELSE lockHolder
    /\ UNCHANGED <<fsVars, envVars, cleanupVars, dir_paths, onDisk, rootName, present, isSplit, extension, walkPc, stack, visited,
                   handles, joinIdx, walkResult, num_dirs, patterns, splitPc,
                   splitResult, groups, matched, accompanying, created_dirs,
                   current_dir, remaining, order, assigned, curGroup, filePos, copied>>

\* A loop that puts the accompanying files in front of the group.
PrependAccompanying(e) ==
    /\ task[e] = "found"
    /\ groups' = [groups EXCEPT ![e] = accompanying[e] \o groups[e]]
    /\ lockHolder' = IF lockHolder = e THEN NoHolder ELSE lockHolder
    /\ task' = [task EXCEPT ![e] = "ok"]
    /\ UNCHANGED <<fsVars, envVars, cleanupVars, dir_paths, onDisk, rootName, present, isSplit, extension, walkPc, stack, visited,
                   handles, joinIdx, walkResult, num_dirs, patterns, splitPc,
                   splitResult, matched, accompanying, created_dirs, current_dir,
                   remaining, order, assigned, curGroup, filePos, copied>>

\* The loop pushing the accompanying files, and the end of the guard's scope.
AppendAccompanying(e) ==
    /\ task[e] = "found"
    /\ groups' = [groups EXCEPT ![e] = groups[e] \o accompanying[e]]
    /\ lockHolder' = IF lockHolder = e THEN NoHolder ELSE lockHolder
    /\ task' = [task EXCEPT ![e] = "ok"]
    /\ UNCHANGED <<fsVars, envVars, cleanupVars, dir_paths, onDisk, rootName, present, isSplit, extension, walkPc, stack, visited,
                   handles, joinIdx, walkResult, num_dirs, patterns, splitPc,
                   splitResult, matched, accompanying, created_dirs, current_dir,
                   remaining, order, assigned, curGroup, filePos, copied>>

\* `self.find_files(file_groups.clone()).await?`
FindFilesReturnIgnoringError ==
    /\ splitPc = "discover"
    /\ walkPc = "done"
    /\ splitPc' = "prepare"
    /\ UNCHANGED <<fsVars, envVars, cleanupVars, dir_paths, onDisk, rootName, present, isSplit, walkVars, num_dirs, patterns, groups,
                   lockHolder, matched, accompanying, created_dirs, current_dir,
                   remaining, order, assigned, curGroup, filePos, copied, splitResult>>

FindFilesReturn ==
    /\ splitPc = "discover"
    /\ walkPc = "done"
    /\ IF walkResult = "Err"
       THEN splitPc' = "done" /\ splitResult' = "Err"
       ELSE splitPc' = "prepare" /\ UNCHANGED splitResult
    /\ UNCHANGED <<fsVars, envVars, cleanupVars, dir_paths, onDisk, rootName, present, isSplit, walkVars, num_dirs, patterns, groups,
                   lockHolder, matched, accompanying, created_dirs, current_dir,
                   remaining, order, assigned, curGroup, filePos, copied>>

\* A loop that uses fs::create_dir, which fails on an existing directory.
CreateDirExclusive ==
    /\ splitPc = "prepare"
    /\ Len(created_dirs) < num_dirs
    /\ DirPath(Len(created_dirs)) \notin onDisk
    /\ created_dirs' = Append(created_dirs, Len(created_dirs))
    /\ dir_paths' = Append(dir_paths, DirPath(Len(created_dirs)))
    /\ onDisk' = onDisk \cup {DirPath(Len(created_dirs))}
    /\ UNCHANGED <<fsVars, envVars, cleanupVars, rootName, present, isSplit, walkVars, num_dirs, patterns, splitPc,
                   splitResult, groups, lockHolder, matched, accompanying, current_dir,
                   remaining, order, assigned, curGroup, filePos, copied>>

\* One round of `for i in 0..self.config.num_dirs`: create_dir_all succeeds.
CreateDir ==
    /\ splitPc = "prepare"
    /\ Len(created_dirs) < num_dirs
    /\ created_dirs' = Append(created_dirs, Len(created_dirs))
    /\ dir_paths' = Append(dir_paths, DirPath(Len(created_dirs)))
    /\ onDisk' = onDisk \cup {DirPath(Len(created_dirs))}
    /\ UNCHANGED <<fsVars, envVars, cleanupVars, rootName, present, isSplit, walkVars, num_dirs, patterns, splitPc,
                   splitResult, groups, lockHolder, matched, accompanying, current_dir,
                   remaining, order, assigned, curGroup, filePos, copied>>

\* create_dir_all fails: `?` returns the error.
CreateDirFail ==
    /\ splitPc = "prepare"
    /\ Len(created_dirs) < num_dirs
    /\ splitPc' = "done"
    /\ splitResult' = "Err"
    /\ UNCHANGED <<fsVars, envVars, cleanupVars, dir_paths, onDisk, rootName, present, isSplit, walkVars, num_dirs, patterns, groups,
                   lockHolder, matched, accompanying, created_dirs, current_dir,
                   remaining, order, assigned, curGroup, filePos, copied>>

\* `let mut current_dir = 0; let groups = file_groups.lock().await;`
BeginDistribute ==
    /\ splitPc = "prepare"
    /\ Len(created_dirs) = num_dirs
    /\ LockFree
    /\ lockHolder' = SplitHolder
    /\ current_dir' = 0
    /\ remaining' = DOMAIN groups
    /\ splitPc' = "distribute"
    /\ UNCHANGED <<fsVars, envVars, cleanupVars, dir_paths, onDisk, rootName, present, isSplit, walkVars, num_dirs, patterns,
                   splitResult, groups, matched, accompanying, created_dirs, order,
                   assigned, curGroup, filePos, copied>>

\* groups.values() yields a group: `let target_dir = &created_dirs[current_dir]`
\* panics when the index is out of bounds.
BeginGroup(g) ==
    /\ splitPc = "distribute"
    /\ curGroup = NoGroup
    /\ g \in remaining
    /\ remaining' = remaining \ {g}
    /\ IF current_dir < Len(created_dirs)
       THEN /\ curGroup' = g
            /\ order' = Append(order, g)
            /\ assigned' = [x \in DOMAIN assigned \cup {g} |->
                              IF x = g THEN created_dirs[current_dir + 1] ELSE assigned[x]]
            /\ filePos' = 0
            /\ UNCHANGED <<splitPc, splitResult, lockHolder>>
       ELSE /\ splitPc' = "done"
            /\ splitResult' = "Panic"
            /\ lockHolder' = NoHolder
            /\ UNCHANGED <<curGroup, order, assigned, filePos>>
    /\ UNCHANGED <<fsVars, envVars, cleanupVars, dir_paths, onDisk, rootName, present, isSplit, walkVars, num_dirs, patterns, groups,
                   matched, accompanying, created_dirs, current_dir, copied>>

\* A copy loop that advances the cursor after every file, not every group.
CopyFileAdvancing ==
    /\ splitPc = "distribute"
    /\ curGroup # NoGroup
    /\ filePos < Len(groups[curGroup])
    /\ copied' = Append(copied, [src |-> groups[curGroup][filePos + 1],
                                 dir |-> created_dirs[((assigned[curGroup] + filePos)
                                                        % Len(created_dirs)) + 1],
                                 group |-> curGroup,
                                 effect |-> "copied"])
    /\ filePos' = filePos + 1
    /\ UNCHANGED <<fsVars, envVars, cleanupVars, dir_paths, onDisk, rootName, present, isSplit, walkVars, num_dirs, patterns, splitPc,
                   splitResult, groups, lockHolder, matched, accompanying,
                   created_dirs, current_dir, remaining, order, assigned, curGroup>>

\* `fs::copy(file, &target_path).await?` succeeds for the next member.
CopyFile ==
    /\ splitPc = "distribute"
    /\ curGroup # NoGroup
    /\ filePos < Len(groups[curGroup])
    /\ \E effect \in CopyEffects(groups[curGroup][filePos + 1], assigned[curGroup]) :
            copied' = Append(copied, [src |-> groups[curGroup][filePos + 1],
                                      dir |-> assigned[curGroup],
                                      group |-> curGroup,
                                      effect |-> effect])
    /\ filePos' = filePos + 1
    /\ UNCHANGED <<fsVars, envVars, cleanupVars, dir_paths, onDisk, rootName, present, isSplit, walkVars, num_dirs, patterns, splitPc,
                   splitResult, groups, lockHolder, matched, accompanying,
                   created_dirs, current_dir, remaining, order, assigned, curGroup>>

\* fs::copy fails: `?` returns the error.
CopyFileFailContinues ==
    /\ splitPc = "distribute"
    /\ curGroup # NoGroup
    /\ filePos < Len(groups[curGroup])
    /\ filePos' = filePos + 1
    /\ splitResult' = "Err"
    /\ UNCHANGED <<fsVars, envVars, cleanupVars, dir_paths, onDisk, rootName, present, isSplit, walkVars, num_dirs, patterns, groups,
                   matched, accompanying, created_dirs, current_dir, remaining, order,
                   assigned, curGroup, copied, splitPc, lockHolder>>

CopyFileFail ==
    /\ splitPc = "distribute"
    /\ curGroup # NoGroup
    /\ filePos < Len(groups[curGroup])
    /\ splitPc' = "done"
    /\ splitResult' = "Err"
    /\ lockHolder' = NoHolder
    /\ UNCHANGED <<fsVars, envVars, cleanupVars, dir_paths, onDisk, rootName, present, isSplit, walkVars, num_dirs, patterns, groups,
                   matched, accompanying, created_dirs, current_dir, remaining, order,
                   assigned, curGroup, filePos, copied>>

\* The group is copied: the cursor moves on.
EndGroup ==
    /\ splitPc = "distribute"
    /\ curGroup # NoGroup
    /\ filePos = Len(groups[curGroup])
    /\ current_dir' = NextDir(current_dir, num_dirs)
    /\ curGroup' = NoGroup
    /\ UNCHANGED <<fsVars, envVars, cleanupVars, dir_paths, onDisk, rootName, present, isSplit, walkVars, num_dirs, patterns, splitPc,
                   splitResult, groups, lockHolder, matched, accompanying,
                   created_dirs, remaining, order, assigned, filePos, copied>>

\* `Ok(created_dirs)`
SplitReturn ==
    /\ splitPc = "distribute"
    /\ curGroup = NoGroup
    /\ remaining = {}
    /\ splitPc' = "done"
    /\ splitResult' = "Ok"
    /\ lockHolder' = NoHolder
    /\ UNCHANGED <<fsVars, envVars, cleanupVars, dir_paths, onDisk, rootName, present, isSplit, walkVars, num_dirs, patterns, groups,
                   matched, accompanying, created_dirs, current_dir, remaining, order,
                   assigned, curGroup, filePos, copied>>

NextSplit ==
    \/ SplitCall
    \/ \E e \in Entries : VisitEntry(e)
    \/ LeaveDir
    \/ BeginJoin
    \/ \E e \in Entries, answer \in {"true", "false", "err"} : IsMatch(e, answer)
    \/ \E e \in Entries : LockGroups(e)
    \/ \E e \in Entries : PushRepresentative(e)
    \/ \E e \in Entries : FindAccompanying(e)
    \/ \E e \in Entries : FindAccompanyingFail(e)
    \/ \E e \in Entries : AppendAccompanying(e)
    \/ JoinStep
    \/ JoinDone
    \/ FindFilesReturn
    \/ CreateDir
    \/ CreateDirFail
    \/ BeginDistribute
    \/ \E g \in Entries : BeginGroup(g)
    \/ CopyFile
    \/ CopyFileFail
    \/ EndGroup
    \/ SplitReturn

SpecSplit == InitSplit /\ [][NextSplit]_vars

\* split under a fair scheduler: the runtime keeps polling every task
\* that can make a step, and every matcher call and file system
\* operation returns, so a step that is possible is eventually taken.
InitFair ==
    /\ InitCommon
    /\ isSplit = TRUE
    /\ rootName = <<"p", "r", "o", "j">>
    /\ present \in Trees(SplitPool, MaxFairEntries)
    /\ extension = <<>>
    /\ num_dirs \in 0..MaxNumDirs
    /\ patterns \in PatternChoices
    /\ faulty = {}
    /\ DefaultNaming

SpecFair == InitFair /\ [][NextSplit]_vars /\ WF_vars(NextSplit)

\* A file left in a target directory by an earlier run.
OldFile == <<"o", "l", "d">>

\* What may be on disk before split is called: target directories of the
\* default naming, and an old file in the first one.
ExistingPaths == {DirPath(0), DirPath(0) \o <<"/">> \o OldFile, DirPath(1)}

\* split is called when some of its target directories exist already.
InitExisting ==
    /\ InitState
    /\ argPath = <<>>
    /\ isSplit = TRUE
    /\ rootName = <<"p", "r", "o", "j">>
    /\ present \in Trees(ConfigPool, MaxConfigEntries)
    /\ extension = <<>>
    /\ num_dirs \in 1..MaxNumDirs
    /\ patterns \in PatternChoices
    /\ faulty = {}
    /\ DefaultNaming
    /\ onDisk \in {s \in SUBSET ExistingPaths :
                        \A p \in s : \E d \in s : d \in {DirPath(0), DirPath(1)} /\ Under(p, d)}

SpecExisting == InitExisting /\ [][NextSplit]_vars

(***************************************************************************)
(* split called a second time on a source directory that holds the target  *)
(* directories of a first call.                                            *)
(***************************************************************************)
\* The catalogue entry of the target directory of index i, under the
\* default naming and with no output directory.
TargetDirEntry(i) ==
    CHOOSE e \in Entries :
        /\ IsDir(e)
        /\ Parent(e) = Root
        /\ Catalog[e].name = ReplacePlaceholder(DefaultPrefix, Digits(i))

\* The catalogue entry of the copy of file f in the target of index i.
CopyEntry(f, i) ==
    CHOOSE e \in Entries :
        /\ IsFile(e)
        /\ Parent(e) = TargetDirEntry(i)
        /\ Catalog[e].name = Catalog[f].name

\* The group the first call built for file f of the source files S: the
\* file and the files of its directory that a pattern matches.
FirstRunGroup(f, S) ==
    {f} \cup (IF patterns.some
              THEN {x \in S : \E k \in DOMAIN patterns.val :
                                PatternIsMatch(patterns.val[k], PathStr(x))}
              ELSE {})

\* What the first call, which matched every file of S and took the groups
\* in the order `ord`, left in the source directory: n target directories
\* and the copies of the members of the k-th group in target (k-1) mod n.
FirstRunOutput(S, n, ord) ==
    {TargetDirEntry(i) : i \in 0..(n - 1)}
        \cup UNION {{CopyEntry(m, (k - 1) % n) : m \in FirstRunGroup(ord[k], S)} : k \in DOMAIN ord}

\* The entry lies in a target directory of this configuration.
InsideTarget(e) == \E i \in 0..(num_dirs - 1) : e # Root /\ Parent(e) = TargetDirEntry(i)

\* The content of a file before the second call, named by the entry that
\* had it first: a copy made by the first call has its original's.
Origin(e) ==
    IF InsideTarget(e)
    THEN CHOOSE f \in Entries : Parent(f) = Root /\ IsFile(f) /\ Catalog[f].name = Catalog[e].name
    ELSE e

\* Contents that are no file's original content: no file, an empty file.
Absent == 0
Truncated == -1

\* The content at a path before split is called.
InitialContent(p) ==
    IF \E e \in present : IsFile(e) /\ PathStr(e) = p
    THEN Origin(CHOOSE e \in present : IsFile(e) /\ PathStr(e) = p)
    ELSE Absent

RECURSIVE ContentAfter(_, _)
\* The content at a path after the first k copies of the log.
ContentAfter(p, k) ==
    IF k = 0 THEN InitialContent(p)
    ELSE IF TargetPath(copied[k].src, copied[k].dir) # p THEN ContentAfter(p, k - 1)
    ELSE CASE copied[k].effect = "truncated" -> Truncated
           [] copied[k].effect = "kept" -> ContentAfter(p, k - 1)
           [] OTHER -> ContentAfter(PathStr(copied[k].src), k - 1)

\* split is called again, with the same configuration and no output
\* directory, right after a successful first call.
InitRerun ==
    /\ InitState
    /\ argPath = <<>>
    /\ isSplit = TRUE
    /\ rootName = <<"p", "r", "o", "j">>
    /\ extension = <<>>
    /\ faulty = {}
    /\ DefaultNaming
    /\ num_dirs \in 1..MaxNumDirs
    /\ patterns \in RerunPatternChoices
    /\ \E S \in SUBSET RerunPool :
            /\ S # {}
            /\ Cardinality(S) <= MaxRerunFiles
            /\ \E ord \in Listings(S) :
                    present = {Root} \cup S \cup FirstRunOutput(S, num_dirs, ord)
    /\ onDisk = {DirPath(i) : i \in 0..(num_dirs - 1)}

SpecRerun == InitRerun /\ [][NextSplit]_vars

(***************************************************************************)
(* DirectorySplitter::cleanup.                                             *)
(***************************************************************************)
RemovalFailed == {"notfound", "io"}

\* A removal that succeeds silently when the directory is missing.
RemoveOutcomesLenient(path) == IF path \in onDisk THEN {"ok", "io"} ELSE {"ok"}

\* fs::remove_dir_all: a missing directory is a not-found error; an
\* existing one is removed, unless the removal fails (permission denied).
RemoveOutcomes(path) == IF path \in onDisk THEN {"ok", "io"} ELSE {"notfound"}

\* The error cleanup returns for a failed removal.
ErrorOf(r) == IF r = "notfound" THEN "NotFound" ELSE "IoError"

\* A join that waits for every removal and drops their errors.
AllSettled == \A i \in 1..Len(removal) : removal[i] # "pending"

\* try_join_all resolves to Ok once every future resolved to Ok.
AllRemoved == \A i \in 1..Len(removal) : removal[i] = "ok"

\* The caller hands the directories split returned to cleanup: the first
\* time after a successful split, then again after a successful cleanup.
CleanupCall ==
    /\ splitResult = "Ok"
    /\ cleanupRun < MaxCleanupCalls
    /\ \/ cleanupPc = "idle"
       \/ cleanupPc = "done" /\ cleanupResult = "Ok"
    /\ cleanupPc' = "running"
    /\ cleanupRun' = cleanupRun + 1
    /\ removal' = [i \in 1..Len(dir_paths) |-> "pending"]
    /\ cleanupResult' = "none"
    /\ UNCHANGED <<fsVars, envVars, dir_paths, onDisk, rootName, present, isSplit, walkVars,
                   splitVars>>

\* One `fs::remove_dir_all(&dir).await` runs; it runs on the blocking
\* pool, so it also runs to its end when cleanup has already returned.
RemoveDir(i, outcome) ==
    /\ cleanupPc \in {"running", "done"}
    /\ i \in 1..Len(removal)
    /\ removal[i] = "pending"
    /\ outcome \in RemoveOutcomes(dir_paths[i])
    /\ removal' = [removal EXCEPT ![i] = outcome]
    /\ onDisk' = IF outcome = "ok"
                 THEN {p \in onDisk : ~Under(p, dir_paths[i])}
                 ELSE onDisk
    /\ UNCHANGED <<fsVars, envVars, dir_paths, cleanupPc, cleanupRun, cleanupResult, rootName,
                   present, isSplit, walkVars, splitVars>>

\* A join that reports a failed removal only once every removal has
\* ended, as join_all followed by a look at the results would.
CleanupReturnErrAfterAll(i) ==
    /\ cleanupPc = "running"
    /\ i \in 1..Len(removal)
    /\ removal[i] \in RemovalFailed
    /\ \A j \in 1..Len(removal) : removal[j] # "pending"
    /\ cleanupPc' = "done"
    /\ cleanupResult' = ErrorOf(removal[i])
    /\ UNCHANGED <<fsVars, envVars, dir_paths, onDisk, cleanupRun, removal, rootName, present,
                   isSplit, walkVars, splitVars>>

\* try_join_all resolves to the error of a failed removal: `.await?`.
CleanupReturnErr(i) ==
    /\ cleanupPc = "running"
    /\ i \in 1..Len(removal)
    /\ removal[i] \in RemovalFailed
    /\ cleanupPc' = "done"
    /\ cleanupResult' = ErrorOf(removal[i])
    /\ UNCHANGED <<fsVars, envVars, dir_paths, onDisk, cleanupRun, removal, rootName, present,
                   isSplit, walkVars, splitVars>>

\* `Ok(())`
CleanupReturnOk ==
    /\ cleanupPc = "running"
    /\ AllRemoved
    /\ cleanupPc' = "done"
    /\ cleanupResult' = "Ok"
    /\ UNCHANGED <<fsVars, envVars, dir_paths, onDisk, cleanupRun, removal, rootName, present,
                   isSplit, walkVars, splitVars>>

NextConfig ==
    \/ NextSplit
    \/ CleanupCall
    \/ \E i \in DOMAIN removal, outcome \in {"ok", "io", "notfound"} : RemoveDir(i, outcome)
    \/ \E i \in DOMAIN removal : CleanupReturnErr(i)
    \/ CleanupReturnOk

SpecConfig == InitConfig /\ [][NextConfig]_vars

(***************************************************************************)
(* Properties.                                                             *)
(***************************************************************************)
Range(s) == {s[i] : i \in DOMAIN s}

\* A task was spawned for the entry.
Scheduled(e) == task[e] # "none"

\* The entry and every directory above it pass the filter_entry closure.
Walkable(e) == \A a \in Ancestors(e) : Keep(a)

\* The names the specification says are pruned: `.git`, `target`, and a
\* dot-prefixed name other than `.`, `..` and names beginning with `.tmp`.
PrunedName(s) ==
    \/ s = <<".", "g", "i", "t">>
    \/ s = <<"t", "a", "r", "g", "e", "t">>
    \/ /\ StartsWith(s, <<".">>)
       /\ s # <<".">>
       /\ s # <<".", ".">>
       /\ ~StartsWith(s, <<".", "t", "m", "p">>)

\* C1: when walk_directory returns a failure, every scheduled unit has
\* been awaited to completion: none is still running at that moment.
C1_AllUnitsAwaitedBeforeFailure ==
    (walkPc = "done" /\ walkResult = "Err") => \A e \in Entries : task[e] \notin Active

\* C2: with the extension "*" the handler is dispatched for every regular
\* file of the non-pruned tree, whatever the file's extension.
C2_WildcardDispatchesEveryFile ==
    (extension = StarExt /\ walkPc \in {"joining", "done"})
        => \A e \in present : (IsFile(e) /\ Walkable(e)) => Scheduled(e)

\* C3: the handler is never dispatched on a path that is, or lies under, an
\* entry named `.git`, `target` or a dot-prefixed name other than `.`, `..`
\* and `.tmp*`: the whole subtree below such an entry is pruned.
C3_NoDispatchUnderPrunedSubtree ==
    \A e \in Entries : Scheduled(e) => \A a \in Ancestors(e) : ~PrunedName(FileName(a))

\* A finished walk that dispatched some file, and left alone a file with
\* the wanted extension two levels below a pruned directory.
C3_Witness ==
    /\ walkPc = "done"
    /\ \E f \in present : Scheduled(f)
    /\ \E e \in present :
        /\ ExtensionMatches(e, extension)
        /\ ~Scheduled(e)
        /\ ~PrunedName(FileName(e))
        /\ ~PrunedName(FileName(Parent(e)))
        /\ PrunedName(FileName(Parent(Parent(e))))

\* Discovery has been joined and split has gone on to its later phases.
DiscoveryOver == splitPc \in {"prepare", "distribute"} \/ (splitPc = "done" /\ walkResult = "Ok")

\* C4: after Discover the table holds exactly one group per matched
\* representative, and no path is a member of two different groups.
C4_OneGroupPerRepresentativeDisjoint ==
    DiscoveryOver =>
        /\ DOMAIN groups = matched
        /\ \A g, h \in DOMAIN groups :
            g # h => Range(groups[g]) \cap Range(groups[h]) = {}

\* C5: no target directory is created and no file is copied while a
\* discovery handler is still running or has yet to run, and no file is
\* copied before all num_dirs directories exist.
C5_PhasesStrictlySequential ==
    /\ (created_dirs # <<>> \/ copied # <<>>) =>
            /\ walkPc = "done"
            /\ \A e \in present : Walkable(e) => e \in visited
            /\ \A e \in Entries : task[e] \notin Active
    /\ copied # <<>> => Len(created_dirs) = num_dirs

\* A copy was made after two discovery handlers ran, into one of two targets.
C5_Witness ==
    /\ copied # <<>>
    /\ Len(handles) >= 2
    /\ num_dirs = 2

\* A handler is between its first and its last operation on the table.
InTableSection(h) == task[h] \in {"pushed", "found"}

\* C6: while a handler is between its first and its last table operation,
\* no step of another handler changes the table.
C6_TableSectionIsCritical ==
    [][\A h \in Entries :
        (InTableSection(h) /\ groups' # groups) => task'[h] # task[h]]_vars

\* A handler is inside its table section while another one, already
\* matched, waits for the lock.
C6_Witness ==
    \E h, w \in Entries : h # w /\ task[h] = "found" /\ task[w] = "matched"

\* The number of distributed groups that went to target directory d.
GroupsIn(d) == Cardinality({i \in 1..Len(order) : assigned[order[i]] = d})

\* C7: the i-th group in iteration order goes to target directory
\* i mod num_dirs (counting from 0), so after a successful split with
\* k = num_dirs and g groups every target holds floor(g/k) or ceil(g/k) groups.
C7_RoundRobin ==
    /\ \A i \in 1..Len(order) : assigned[order[i]] = (i - 1) % num_dirs
    /\ (splitResult = "Ok" /\ num_dirs > 0) =>
            LET g == Cardinality(DOMAIN groups)
                lo == g \div num_dirs
                hi == IF g % num_dirs = 0 THEN lo ELSE lo + 1
            IN /\ Len(order) = g
               /\ \A d \in 0..(num_dirs - 1) : GroupsIn(d) \in {lo, hi}

\* A successful split of three groups over two directories: the cursor
\* has wrapped around.
C7_Witness ==
    /\ splitResult = "Ok"
    /\ num_dirs = 2
    /\ Len(order) = 3

\* C8: split with num_dirs = 0 ends with an error, without having run
\* discovery and without having created a directory.
C8_ZeroDirsFailsFast ==
    (num_dirs = 0 /\ splitPc = "done") =>
        /\ splitResult = "Err"
        /\ visited = {}
        /\ created_dirs = <<>>

C10_JoinAfterTraversalOkAfterAll ==
    /\ walkPc \in {"joining", "done"} => \A e \in present : Walkable(e) => e \in visited
    /\ walkResult = "Ok" => \A e \in Entries : task[e] \notin Active

\* A successful walk that scheduled three units.
C10_Witness ==
    /\ walkResult = "Ok"
    /\ Len(handles) >= 3

\* No ancestor of the entry, nor the entry, carries a name the
\* specification says is pruned.
NotPrunedBySpec(e) == \A a \in Ancestors(e) : ~PrunedName(FileName(a))

\* C11: once the traversal is over, exactly one handler invocation has
\* been scheduled for each non-pruned entry whose final extension equals
\* the target extension, and none for any other entry.
C11_OneUnitPerMatchingEntry ==
    walkPc \in {"joining", "done"} =>
        /\ \A e \in present :
            Scheduled(e) <=> (NotPrunedBySpec(e) /\ ExtensionMatches(e, extension))
        /\ \A i, j \in 1..Len(handles) : handles[i] = handles[j] => i = j

\* The specification's is_hidden: the name starts with `.`, is neither
\* `.` nor `..`, and does not begin with `.tmp`.
HiddenBySpec(s) ==
    /\ StartsWith(s, <<".">>)
    /\ s # <<".">>
    /\ s # <<".", ".">>
    /\ ~StartsWith(s, <<".", "t", "m", "p">>)

\* C12: is_hidden holds of an entry exactly when its final name segment
\* starts with `.`, is not `.` or `..` and does not begin with `.tmp`;
\* checked on every entry the walker has applied the predicate to.
C12_HiddenExceptTmp ==
    \A e \in visited : is_hidden(e) <=> HiddenBySpec(FileName(e))

\* C13: the first cleanup of the directories a successful split returned
\* meets no missing directory, and when it returns Ok none of them is left
\* on disk; a further cleanup of the same, now removed, directories
\* returns a not-found error.
C13_CleanupRemovesThenNotFound ==
    /\ cleanupRun = 1 =>
            /\ \A i \in DOMAIN removal : removal[i] # "notfound"
            /\ cleanupResult # "NotFound"
            /\ cleanupResult = "Ok" => \A i \in DOMAIN dir_paths : dir_paths[i] \notin onDisk
            /\ (cleanupPc = "done" /\ \A i \in DOMAIN removal : removal[i] # "io") =>
                    cleanupResult = "Ok"
    /\ (cleanupRun = 2 /\ cleanupPc = "done" /\ dir_paths # <<>>) =>
            /\ cleanupResult = "NotFound"
            /\ \A i \in DOMAIN dir_paths : dir_paths[i] \notin onDisk

\* A second cleanup of two directories has returned.
C13_Witness ==
    /\ cleanupRun = 2
    /\ cleanupPc = "done"
    /\ Len(dir_paths) = 2
    /\ cleanupResult = "NotFound"

\* The sum of the lengths of the groups of a set of keys.
RECURSIVE MemberCount(_)
MemberCount(keys) ==
    IF keys = {} THEN 0
    ELSE LET g == CHOOSE x \in keys : TRUE
         IN Len(groups[g]) + MemberCount(keys \ {g})

\* The files in the target directories: a copy lands at the target's
\* path joined with the source's file name.
TargetFiles == {<<copied[i].dir, FileName(copied[i].src)>> : i \in DOMAIN copied}

\* C14: after a successful split the target directories together hold as
\* many files as the groups have members.
C14_CopiedCountEqualsMembers ==
    splitResult = "Ok" => Cardinality(TargetFiles) = MemberCount(DOMAIN groups)

\* Index of the first placeholder of a template (0: none).
PlaceholderAt(t) ==
    LET at == {i \in 1..(Len(t) - 1) : t[i] = "{" /\ t[i + 1] = "}"}
    IN IF at = {} THEN 0 ELSE CHOOSE i \in at : \A j \in at : i <= j

\* The path the specification gives target i: the output directory (the
\* source directory when none is set), the prefix with its placeholder
\* replaced by i, the suffix.
ExpectedPath(i) ==
    LET p == PlaceholderAt(prefix_format)
        base == IF output_dir.some THEN output_dir.val ELSE rootName
    IN base \o <<"/">> \o SubSeq(prefix_format, 1, p - 1) \o Digits(i)
            \o SubSeq(prefix_format, p + 2, Len(prefix_format)) \o suffix_format

\* C15: a successful split returns exactly num_dirs paths, entry i being
\* the expected path of index i, and the group at round-robin position i
\* is copied into the directory of entry i.
C15_ReturnedPathsInCreationOrder ==
    splitResult = "Ok" =>
        /\ Len(dir_paths) = num_dirs
        /\ Len(created_dirs) = num_dirs
        /\ \A k \in 1..num_dirs : dir_paths[k] = ExpectedPath(k - 1) /\ created_dirs[k] = k - 1
        /\ \A i \in 1..Len(order) :
            dir_paths[assigned[order[i]] + 1] = ExpectedPath((i - 1) % num_dirs)

\* A successful split into two suffixed directories below the source.
C15_Witness ==
    /\ splitResult = "Ok"
    /\ num_dirs = 2
    /\ ~output_dir.some
    /\ suffix_format # <<>>
    /\ copied # <<>>

\* C16: when is_match or find_accompanying_files has failed for a
\* discovered file, no target directory is created and no file copied,
\* split ends with that failure, and no file is given to the handler twice.
C16_MatcherFailureSurfaces ==
    /\ (\E e \in Entries : task[e] = "err") =>
            /\ created_dirs = <<>>
            /\ copied = <<>>
            /\ onDisk = {}
            /\ splitPc = "done" => splitResult = "Err"
    /\ \A i, j \in 1..Len(handles) : handles[i] = handles[j] => i = j

\* split has returned the failure of a handler that was not awaited first.
C16_Witness ==
    /\ splitPc = "done"
    /\ splitResult = "Err"
    /\ joinIdx >= 1
    /\ \E e \in Entries : task[e] = "err" /\ e \in matched

\* C17: once split has failed, no further directory is created and no
\* further file copied, and the directories created before stay on disk.
C17_FirstIoFailureAborts ==
    [][splitResult = "Err" =>
        /\ created_dirs' = created_dirs
        /\ copied' = copied
        /\ splitResult' = "Err"
        /\ \A i \in DOMAIN dir_paths : dir_paths[i] \in onDisk']_vars

\* A copy failed after a directory was created and a file copied.
C17_Witness ==
    /\ splitResult = "Err"
    /\ walkResult = "Ok"
    /\ created_dirs # <<>>
    /\ copied # <<>>
    /\ remaining # {}

\* The iterator gives an error for the entry or for a directory above it.
Unreachable(e) == ErrorItem(e) \/ \E a \in Ancestors(e) \ {e} : a \in faulty

HasAccompanying(e) == task[e] = "found" \/ (task[e] = "ok" /\ e \in matched)

\* C19: find_accompanying_files returns each regular file of path's
\* parent directory that some pattern matches, each once, and nothing
\* else; without patterns it returns the empty list.
C19_AccompanyingExactlyMatching ==
    \A e \in Entries : HasAccompanying(e) =>
        /\ Range(accompanying[e]) = AccompanyingSet(e)
        /\ \A i, j \in DOMAIN accompanying[e] :
            accompanying[e][i] = accompanying[e][j] => i = j
        /\ ~patterns.some => accompanying[e] = <<>>

\* A file that two patterns match was collected.
C19_Witness ==
    \E e \in Entries :
        /\ HasAccompanying(e)
        /\ Len(patterns.val) = 2
        /\ \E f \in Range(accompanying[e]) :
            \A i \in 1..2 : PatternIsMatch(patterns.val[i], PathStr(f))

\* C20: cleanup returns an error exactly when a removal failed, the error
\* being that of a failed removal, and Ok(()) exactly when every removal
\* succeeded, which includes the empty list.
C20_CleanupErrIffRemovalFailed ==
    cleanupPc = "done" =>
        /\ cleanupResult # "Ok" <=> \E i \in DOMAIN removal : removal[i] \in RemovalFailed
        /\ cleanupResult = "Ok" <=> \A i \in DOMAIN removal : removal[i] = "ok"
        /\ cleanupResult # "Ok" =>
                \E i \in DOMAIN removal :
                    removal[i] \in RemovalFailed /\ cleanupResult = ErrorOf(removal[i])

\* cleanup returned the error of one removal after another one succeeded.
C20_Witness ==
    /\ cleanupPc = "done"
    /\ cleanupResult = "IoError"
    /\ \E i \in DOMAIN removal : removal[i] = "ok"

\* C21: no path without an extension is a key of the FileGroup table, and
\* none is handed to the discovery handler.
C21_NoExtensionlessRepresentative ==
    /\ \A g \in DOMAIN groups : PathExtension(FileName(g)).some
    /\ \A e \in Entries : Scheduled(e) => PathExtension(FileName(e)).some

\* Discovery has passed an entry without extension and made a group.
C21_Witness ==
    /\ walkPc = "done"
    /\ DOMAIN groups # {}
    /\ \E e \in visited : e # Root /\ Keep(e) /\ ~PathExtension(FileName(e)).some

\* The sources of the copies made for a group, in the order of the copies.
RECURSIVE CopiesOf(_, _)
CopiesOf(g, log) ==
    IF log = <<>> THEN <<>>
    ELSE (IF Head(log).group = g THEN <<Head(log).src>> ELSE <<>>) \o CopiesOf(g, Tail(log))

\* C27: the copy loop takes no group twice and, when split succeeds, has
\* taken every group of the table and copied each of its members; all
\* copies of one group go to one target directory.
C27_GroupVisitedOnceOneTarget ==
    /\ \A i, j \in DOMAIN order : order[i] = order[j] => i = j
    /\ \A i, j \in DOMAIN copied :
            copied[i].group = copied[j].group => copied[i].dir = copied[j].dir
    /\ splitResult = "Ok" =>
            /\ Range(order) = DOMAIN groups
            /\ \A g \in DOMAIN groups : CopiesOf(g, copied) = groups[g]

\* A successful split of two groups, one of them with two members, into
\* two directories.
C27_Witness ==
    /\ splitResult = "Ok"
    /\ num_dirs = 2
    /\ Len(order) = 2
    /\ \E g \in DOMAIN groups : Len(groups[g]) >= 2

\* C28: a group begins with its key, and once the handler of the key has
\* ended the group is the key followed by the list that
\* find_accompanying_files returned, in that order; after a successful
\* discovery this holds of every group.
C28_RepresentativeFirstThenAccompanying ==
    /\ \A g \in DOMAIN groups :
            /\ groups[g] # <<>>
            /\ groups[g][1] = g
            /\ task[g] = "ok" => groups[g] = <<g>> \o accompanying[g]
    /\ (walkResult = "Ok" /\ splitPc # "discover") =>
            \A g \in DOMAIN groups : groups[g] = <<g>> \o accompanying[g]

\* Discovery is over with a group of a representative and two
\* accompanying files.
C28_Witness ==
    /\ walkResult = "Ok"
    /\ splitPc = "prepare"
    /\ \E g \in DOMAIN groups : Len(accompanying[g]) = 2 /\ g \notin Range(accompanying[g])

\* C30: the failure walk_directory returns is that of the first handle,
\* in the order of scheduling, whose unit failed: every handle before it
\* was awaited and did not fail, whatever has become of the later ones.
C30_EarliestScheduledFailure ==
    (walkPc = "done" /\ walkResult = "Err") =>
        /\ joinIdx < Len(handles)
        /\ task[handles[joinIdx + 1]] \in Failed
        /\ \A i \in 1..joinIdx : task[handles[i]] = "ok"

\* The failure of the second handle was returned although the third
\* unit has failed as well.
C30_Witness ==
    /\ walkPc = "done"
    /\ walkResult = "Err"
    /\ joinIdx = 1
    /\ Len(handles) >= 3
    /\ task[handles[3]] \in Failed

\* C26: walk_directory schedules a handler for regular files only.
C26_HandlerOnRegularFilesOnly ==
    \A e \in Entries : Scheduled(e) => IsFile(e)

\* C22: walk_rust_files calls the callback for one file at a time, in
\* the order of discovery, each file once; when it returns Ok the
\* callback has been called for exactly the regular files with extension
\* `rs` that the pruning rules of the specification leave.
C22_RustFilesSequentialExactlyOnce ==
    /\ \A i, j \in DOMAIN handles :
            /\ handles[i] = handles[j] => i = j
            /\ i < j => task[handles[i]] # "running"
    /\ (walkPc = "done" /\ walkResult = "Ok") =>
            \A e \in present :
                Scheduled(e) <=>
                    (NotPrunedBySpec(e) /\ IsFile(e) /\ ExtensionMatches(e, RsExt))

\* C23: delete_files_with_extension returns an error when the removal of
\* a matching file has failed, and Ok(()) only when every matching file
\* was removed.
C23_DeleteErrWhenRemovalFails ==
    walkPc = "done" =>
        /\ (\E e \in present : task[e] = "kept") => walkResult = "Err"
        /\ walkResult = "Ok" => \A e \in present : DeleteMatches(e) => task[e] = "ok"

\* C24: get_files_with_extension yields exactly the entries whose own
\* name does not start with `.` and whose extension is the given one,
\* compared case-sensitively, each once, whatever the directory they are
\* in; for the empty extension string it yields nothing.
C24_YieldsExactlyVisibleWithExtension ==
    walkPc = "done" =>
        /\ Range(handles) = {e \in present :
                                /\ ~StartsWith(FileName(e), <<".">>)
                                /\ ExtensionMatches(e, extension)}
        /\ \A i, j \in DOMAIN handles : handles[i] = handles[j] => i = j
        /\ extension = <<>> => handles = <<>>

\* The path names a hidden file: its final component starts with a dot.
HiddenFilePath(p) == file_name(p).some /\ StartsWith(file_name(p).val, <<".">>)

\* C25: has_extension returns true exactly when the path's final
\* extension equals the given one, compared case-sensitively, and false
\* when there is no extension or the file is hidden.
C25_HasExtensionFalseForHidden ==
    hasExtension # "none" =>
        /\ hasExtension = "true" <=>
                /\ path_extension(argPath) = [some |-> TRUE, val |-> extension]
                /\ ~HiddenFilePath(argPath)
        /\ ~path_extension(argPath).some => hasExtension = "false"
        /\ HiddenFilePath(argPath) => hasExtension = "false"

RootPruned ==
    \/ rootName = <<"t", "a", "r", "g", "e", "t">>
    \/ rootName = <<".", "g", "i", "t">>
    \/ StartsWith(rootName, <<".">>) /\ rootName # <<".">> /\ rootName # <<".", ".">>

C32_CleanupFailsFast ==
    /\ [](\A i \in DOMAIN removal :
            (cleanupPc = "running" /\ removal[i] \in RemovalFailed) =>
                /\ ENABLED CleanupReturnErr(i)
                /\ ~ENABLED CleanupReturnOk)
    /\ [][(cleanupPc = "done" /\ cleanupResult \notin {"Ok", "none"}) =>
            /\ cleanupPc' = "done"
            /\ cleanupResult' = cleanupResult]_vars

\* cleanup has returned the error of one removal while another removal
\* has not ended and its directory is still on disk.
C32_Witness ==
    /\ cleanupPc = "done"
    /\ cleanupResult = "IoError"
    /\ \E i \in DOMAIN removal : removal[i] = "pending" /\ dir_paths[i] \in onDisk

\* C33: no group of the FileGroup table holds the same path twice.
C33_NoPathTwiceInGroup ==
    \A g \in DOMAIN groups :
        \A i, j \in DOMAIN groups[g] : groups[g][i] = groups[g][j] => i = j

\* C35: split leaves every file that was in the source directory before
\* the call in place with the content it had, and writes only into its
\* num_dirs target directories.
C35_CopiesNeverMoves ==
    /\ splitPc = "done" =>
            \A e \in present :
                IsFile(e) => ContentAfter(PathStr(e), Len(copied)) = InitialContent(PathStr(e))
    /\ \A k \in DOMAIN copied :
            /\ copied[k].dir \in 0..(num_dirs - 1)
            /\ Under(TargetPath(copied[k].src, copied[k].dir), DirPath(copied[k].dir))
    /\ onDisk \subseteq {DirPath(i) : i \in 0..(num_dirs - 1)}

\* C36: in a second call with the same configuration and no output
\* directory, no file inside a target directory of the first call becomes
\* a representative or a member of a group, so the groups are those of
\* the files of the source directory, as in the first call.
C36_SecondRunSameGroups ==
    /\ \A e \in matched : ~InsideTarget(e)
    /\ \A g \in DOMAIN groups :
            /\ ~InsideTarget(g)
            /\ \A i \in DOMAIN groups[g] : ~InsideTarget(groups[g][i])

\* C34: the lock of the FileGroup table is held only by a handler that is
\* inside its table section, never by one that has ended, with a failure
\* of find_accompanying_files or without; split takes the lock only when
\* discovery has returned Ok and no handler is left; and under fair
\* scheduling split always comes to its end.
C34_NoDeadlockOnTableLock ==
    /\ [](/\ \A e \in Entries : lockHolder = e => task[e] \in {"locked", "pushed", "found"}
          /\ lockHolder = SplitHolder =>
                /\ walkPc = "done"
                /\ walkResult = "Ok"
                /\ \A e \in Entries : task[e] \notin Active)
    /\ <>(splitPc = "done")

\* find_accompanying_files failed for a representative that held the
\* lock, another handler took the lock and ended, and split has returned.
C34_Witness ==
    /\ splitPc = "done"
    /\ lockHolder = NoHolder
    /\ \E e, w \in DOMAIN groups : e # w /\ task[e] = "err" /\ task[w] = "ok"

====
